---- MODULE Spec2Model ----
(***************************************************************************)
(* FirmwareDashboard (src/firmware_version_dashboard.jsx): the six state   *)
(* slots of the component, the promise chain of the mount-time fetch, the  *)
(* input handlers, and the two memoised derivations (filtered,             *)
(* lastUpdated) that every render evaluates.                               *)
(*                                                                         *)
(* A JavaScript string is a sequence of one-character strings, so that     *)
(* trim, toLowerCase, includes, localeCompare and Date parsing are         *)
(* computed on the characters.  The values undefined and null are the      *)
(* one-element tuples Undefined and Null, which no character sequence      *)
(* equals.  A parsed JSON value is [kind, items]: kind "array" with the     *)
(* elements in items, or kind "object" for a body that is not an array.     *)
(* A time value is [valid, t]: t in seconds since the epoch (the code's     *)
(* getTime() is 1000 * t; no modelled timestamp has a fractional second),   *)
(* valid = FALSE being NaN (an Invalid Date).                               *)
(*                                                                         *)
(* Setter calls write the slots at once.  React renders after the handler  *)
(* or promise reaction that made them has returned, so a throw during a     *)
(* render is not seen by the promise chain; each action below ends with     *)
(* the render its state update causes.  After the view has left the tree    *)
(* the reactions still run and call the setters, and nothing is rendered.   *)
(***************************************************************************)
EXTENDS Integers, Sequences, FiniteSets

VARIABLES
    mode,            \* DATA_MODE, fixed at build time
    records, loading, error, q, showBeta, sortKey,   \* the useState slots
    filtered, filteredDeps,        \* useMemo: last computed value and its deps
    lastUpdated, lastUpdatedDeps,  \* useMemo: last computed value and its deps
    mounted,         \* the component is in the tree
    crashed,         \* a render threw (no error boundary: React removes the tree)
    pc,              \* position of the effect / promise chain
    response,        \* HTTP status the fetch resolved with (0: none yet)
    json,            \* value r.json() resolved with
    rejection,       \* the Error the chain is rejected with
    requests,        \* number of fetch() calls issued
    tornDownAt       \* pc at the moment the parent unmounted the view

vars == <<mode, records, loading, error, q, showBeta, sortKey, filtered,
          filteredDeps, lastUpdated, lastUpdatedDeps, mounted, crashed, pc,
          response, json, rejection, requests, tornDownAt>>

slots == <<records, loading, error, q, showBeta, sortKey>>

memo == <<filtered, filteredDeps, lastUpdated, lastUpdatedDeps>>

chain == <<pc, response, json, rejection, requests>>

-----------------------------------------------------------------------------
(* Values *)

Undefined == <<"undefined">>

Null == <<"null">>

Arr(items) == [kind |-> "array", items |-> items]

JsonObject == [kind |-> "object", items |-> <<>>]

NoJson == [kind |-> "none", items |-> <<>>]

NaN == [valid |-> FALSE, t |-> 0]

Time(s) == [valid |-> TRUE, t |-> s]

Range(s) == {s[i] : i \in DOMAIN s}

Beta == <<"b","e","t","a">>

INLINE_DATA ==
    Arr(<<
      [product_code |-> <<"P","W","-","S","E","N","-","A","L","7","7","0","0">>,
       product_name |-> <<"P","a","c","w","a","v","e"," ","P","I","R"," ","C","e","i","l","i","n","g"," ","S","e","n","s","o","r">>,
       hardware_rev |-> <<"A","2">>,
       channel      |-> <<"a","p","p","r","o","v","e","d">>,
       version      |-> <<"1",".","4",".","2">>,
       released_at  |-> <<"2","0","2","5","-","0","8","-","2","0","T","0","9",":","1","5",":","0","0","Z">>,
       notes        |-> <<"I","m","p","r","o","v","e","d"," ","U","A","R","T"," ","f","r","a","m","i","n","g",";"," ","f","i","x"," ","d","e","l","a","y","e","d"," ","I","R","S",".">>],
      [product_code |-> <<"P","W","-","S","E","N","-","A","L","7","7","0","0">>,
       product_name |-> <<"P","a","c","w","a","v","e"," ","P","I","R"," ","C","e","i","l","i","n","g"," ","S","e","n","s","o","r">>,
       hardware_rev |-> <<"A","2">>,
       channel      |-> <<"b","e","t","a">>,
       version      |-> <<"1",".","5",".","0","-","b","e","t","a",".","2">>,
       released_at  |-> <<"2","0","2","5","-","0","8","-","2","1","T","0","2",":","0","1",":","0","0","Z">>,
       notes        |-> <<"A","d","d","s"," ","a","n","t","i","-","r","o","l","l","b","a","c","k"," ","c","h","e","c","k",".">>],
      [product_code |-> <<"B","L","6","5","2","-","G","W">>,
       product_name |-> <<"S","i","l","v","a","i","r"," ","B","L","E"," ","M","e","s","h"," ","G","a","t","e","w","a","y">>,
       hardware_rev |-> <<"B","1">>,
       channel      |-> <<"a","p","p","r","o","v","e","d">>,
       version      |-> <<"3",".","2",".","0">>,
       released_at  |-> <<"2","0","2","5","-","0","8","-","1","5","T","1","8",":","0","0",":","0","0","Z">>,
       notes        |-> <<"G","a","t","e","w","a","y"," ","s","t","a","b","i","l","i","t","y"," ","f","i","x","e","s"," ","f","o","r"," ","1","0","0","+"," ","n","o","d","e","s",".">>],
      [product_code |-> <<"A","L","1","0","3","9","-","I","-","C","B">>,
       product_name |-> <<"D","A","L","I"," ","C","o","n","t","r","o","l","l","e","r"," ","(","C","a","s","a","m","b","i",")">>,
       hardware_rev |-> <<"C","0">>,
       channel      |-> <<"a","p","p","r","o","v","e","d">>,
       version      |-> <<"2",".","7",".","1">>,
       released_at  |-> <<"2","0","2","5","-","0","8","-","1","0","T","0","1",":","1","0",":","0","0","Z">>,
       notes        |-> <<"D","T","8"," ","R","G","B","W"," ","m","a","p","p","i","n","g"," ","s","a","f","e","g","u","a","r","d",".">>]
    >>)

EpochString == <<"1","9","7","0","-","0","1","-","0","1","T","0","0",":","0","0",":","0","0","Z">>

-----------------------------------------------------------------------------
(* Inputs: what the record source and the user can deliver *)

MaxLen == 2

\* A record published before the epoch, with no hardware_rev and no notes.
LegacyRecord ==
    [product_code |-> <<"P","W","-","L","E","G","-","0","1">>, product_name |-> <<"L","e","g","a","c","y"," ","D","i","m","m","e","r">>,
     hardware_rev |-> Undefined, channel |-> <<"a","p","p","r","o","v","e","d">>, version |-> <<"0",".","9">>,
     released_at |-> <<"1","9","6","9","-","1","2","-","3","1","T","2","3",":","5","9",":","5","9","Z">>, notes |-> Undefined]

\* A record whose released_at is not a date.
UndatedRecord ==
    [product_code |-> <<"P","W","-","N","E","W","-","0","2">>, product_name |-> <<"N","o","d","e"," ","A","2">>,
     hardware_rev |-> <<"D","4">>, channel |-> <<"a","p","p","r","o","v","e","d">>, version |-> <<"1","0",".","0">>,
     released_at |-> <<"u","n","k","n","o","w","n">>, notes |-> Undefined]

\* A beta record that lacks product_name.
NamelessRecord ==
    [product_code |-> <<"P","W","-","X">>, product_name |-> Undefined,
     hardware_rev |-> Undefined, channel |-> <<"b","e","t","a">>, version |-> <<"0",".","1">>,
     released_at |-> <<"2","0","2","5","-","0","9","-","0","1","T","0","0",":","0","0",":","0","0","Z">>, notes |-> Undefined]

RecordPool ==
    {INLINE_DATA.items[1], INLINE_DATA.items[2], LegacyRecord, UndatedRecord}

SeqsUpTo(S, n) == UNION {[1..k -> S] : k \in 0..n}

\* Bodies r.json() can resolve with: arrays of records, an array holding a
\* malformed record, and a JSON value that is not an array.
Payloads ==
    {Arr(s) : s \in SeqsUpTo(RecordPool, MaxLen)}
        \cup {Arr(<<NamelessRecord>>), JsonObject}

Statuses == {200, 404, 500}

Queries == {<<>>, <<" ">>, <<" ","A","2"," ">>, <<"B","L","6","5","2">>}

SortKeys == {"product_name", "product_code", "released_at", "version"}

-----------------------------------------------------------------------------
(* String.prototype functions *)

UpperCase == <<"A","B","C","D","E","F","G","H","I","J","K","L","M","N","O","P","Q","R","S","T","U","V","W","X","Y","Z">>

LowerCase == <<"a","b","c","d","e","f","g","h","i","j","k","l","m","n","o","p","q","r","s","t","u","v","w","x","y","z">>

DigitChars == <<"0","1","2","3","4","5","6","7","8","9">>

IndexIn(s, c) == IF \E i \in DOMAIN s : s[i] = c
                 THEN CHOOSE i \in DOMAIN s : s[i] = c
                 ELSE 0

LowerOf == [c \in {UpperCase[i] : i \in DOMAIN UpperCase} |-> LowerCase[IndexIn(UpperCase, c)]]

Lower(c) == IF c \in DOMAIN LowerOf THEN LowerOf[c] ELSE c

toLowerCase(s) == [i \in DOMAIN s |-> Lower(s[i])]

IsSpace(c) == c \in {" ", "\t", "\n"}

RECURSIVE trimStart(_)
trimStart(s) == IF s # <<>> /\ IsSpace(Head(s)) THEN trimStart(Tail(s)) ELSE s

RECURSIVE trimEnd(_)
trimEnd(s) == IF s # <<>> /\ IsSpace(s[Len(s)])
              THEN trimEnd(SubSeq(s, 1, Len(s) - 1))
              ELSE s

trim(s) == trimEnd(trimStart(s))

includes(hay, needle) ==
    \E i \in 0..(Len(hay) - Len(needle)) : SubSeq(hay, i + 1, i + Len(needle)) = needle

\* String(v) of a string or of undefined
String(v) == IF v = Undefined THEN <<"u","n","d","e","f","i","n","e","d">> ELSE v

DigitOf == [c \in {DigitChars[i] : i \in DOMAIN DigitChars} |-> IndexIn(DigitChars, c) - 1]

IsDigit(c) == c \in DOMAIN DigitOf

DigitVal(c) == DigitOf[c]

RECURSIVE NumberOf(_)
NumberOf(s) == IF s = <<>> THEN 0
               ELSE 10 * NumberOf(SubSeq(s, 1, Len(s) - 1)) + DigitVal(s[Len(s)])

\* `${n}` of a non-negative integer
RECURSIVE Digits(_)
Digits(n) == IF n < 10 THEN <<DigitChars[n + 1]>>
             ELSE Digits(n \div 10) \o <<DigitChars[(n % 10) + 1]>>

Sign(n) == IF n < 0 THEN -1 ELSE IF n > 0 THEN 1 ELSE 0

-----------------------------------------------------------------------------
(* Date: new Date(s) for the format YYYY-MM-DDTHH:mm:ssZ; any other string, *)
(* and undefined, gives an Invalid Date.                                    *)

AllDigits(s) == \A i \in DOMAIN s : IsDigit(s[i])

IsLeap(y) == (y % 4 = 0 /\ y % 100 # 0) \/ y % 400 = 0

DaysInMonth(y, m) == IF m = 2 THEN (IF IsLeap(y) THEN 29 ELSE 28)
                     ELSE IF m \in {4, 6, 9, 11} THEN 30 ELSE 31

\* days from 1970-01-01 to y-m-d (proleptic Gregorian)
DaysFromCivil(y, m, d) ==
    LET yy  == IF m <= 2 THEN y - 1 ELSE y
        era == yy \div 400
        yoe == yy - era * 400
        mp  == IF m > 2 THEN m - 3 ELSE m + 9
        doy == (153 * mp + 2) \div 5 + d - 1
        doe == yoe * 365 + yoe \div 4 - yoe \div 100 + doy
    IN  era * 146097 + doe - 719468

getTime(s) ==
    IF s = Undefined \/ Len(s) # 20 THEN NaN
    ELSE IF ~ (/\ s[5] = "-" /\ s[8] = "-" /\ s[11] = "T"
               /\ s[14] = ":" /\ s[17] = ":" /\ s[20] = "Z"
               /\ AllDigits(SubSeq(s, 1, 4)) /\ AllDigits(SubSeq(s, 6, 7))
               /\ AllDigits(SubSeq(s, 9, 10)) /\ AllDigits(SubSeq(s, 12, 13))
               /\ AllDigits(SubSeq(s, 15, 16)) /\ AllDigits(SubSeq(s, 18, 19)))
    THEN NaN
    ELSE LET y  == NumberOf(SubSeq(s, 1, 4))
             mo == NumberOf(SubSeq(s, 6, 7))
             d  == NumberOf(SubSeq(s, 9, 10))
             h  == NumberOf(SubSeq(s, 12, 13))
             mi == NumberOf(SubSeq(s, 15, 16))
             se == NumberOf(SubSeq(s, 18, 19))
         IN  IF mo \in 1..12 /\ d \in 1..DaysInMonth(y, mo)
                /\ h <= 23 /\ mi <= 59 /\ se <= 59
             THEN Time(DaysFromCivil(y, mo, d) * 86400 + h * 3600 + mi * 60 + se)
             ELSE NaN

\* Mutant: the comparison of the reduce written the wrong way round.
DateGt_Reversed(a, b) == a.valid /\ b.valid /\ a.t < b.t

\* a > b on two Dates (false when either is invalid)
DateGt(a, b) == a.valid /\ b.valid /\ a.t > b.t

-----------------------------------------------------------------------------
(* String.prototype.localeCompare under the root collation: punctuation,    *)
(* then digits, then letters; letters differing only in case compare lower  *)
(* case first, and only when nothing else differs.                          *)

CollationOrder == <<" ","_","-",",",";",":",".","(",")","+","0","1","2","3","4","5","6","7","8","9","a","b","c","d","e","f","g","h","i","j","k","l","m","n","o","p","q","r","s","t","u","v","w","x","y","z">>

RankOf == [c \in {CollationOrder[i] : i \in DOMAIN CollationOrder} |-> IndexIn(CollationOrder, c)]

Rank(c) == IF Lower(c) \in DOMAIN RankOf THEN RankOf[Lower(c)] ELSE 0

RECURSIVE PrimaryCompare(_, _)
PrimaryCompare(x, y) ==
    IF x = <<>> /\ y = <<>> THEN 0
    ELSE IF x = <<>> THEN -1
    ELSE IF y = <<>> THEN 1
    ELSE IF Rank(Head(x)) # Rank(Head(y)) THEN Sign(Rank(Head(x)) - Rank(Head(y)))
    ELSE PrimaryCompare(Tail(x), Tail(y))

RECURSIVE CaseCompare(_, _)
CaseCompare(x, y) ==
    IF x = <<>> \/ y = <<>> THEN 0
    ELSE IF Head(x) = Head(y) THEN CaseCompare(Tail(x), Tail(y))
    ELSE IF Lower(Head(x)) = Head(x) THEN -1 ELSE 1

localeCompare(x, y) ==
    IF PrimaryCompare(x, y) # 0 THEN PrimaryCompare(x, y) ELSE CaseCompare(x, y)

RECURSIVE DigitRun(_)
DigitRun(s) == IF s # <<>> /\ IsDigit(Head(s)) THEN 1 + DigitRun(Tail(s)) ELSE 0

\* localeCompare(..., { numeric: true, sensitivity: "base" })
RECURSIVE numericCompare(_, _)
numericCompare(x, y) ==
    IF x = <<>> /\ y = <<>> THEN 0
    ELSE IF x = <<>> THEN -1
    ELSE IF y = <<>> THEN 1
    ELSE IF IsDigit(Head(x)) /\ IsDigit(Head(y))
    THEN LET nx == DigitRun(x)
             ny == DigitRun(y)
             vx == NumberOf(SubSeq(x, 1, nx))
             vy == NumberOf(SubSeq(y, 1, ny))
         IN  IF vx # vy THEN Sign(vx - vy)
             ELSE numericCompare(SubSeq(x, nx + 1, Len(x)), SubSeq(y, ny + 1, Len(y)))
    ELSE IF Rank(Head(x)) # Rank(Head(y)) THEN Sign(Rank(Head(x)) - Rank(Head(y)))
    ELSE numericCompare(Tail(x), Tail(y))

-----------------------------------------------------------------------------
(* View pipeline: the useMemo callbacks *)

Needle(qq) == toLowerCase(trim(qq))

\* Mutant: the channel filter ignores the show-beta toggle.
ChannelPass_IgnoresToggle(r, sb) == r.channel # Beta

ChannelPass(r, sb) == IF sb THEN TRUE ELSE r.channel # Beta

\* The text predicate reads r.product_name first and, only when that does not
\* match, r.product_code: toLowerCase of undefined is a TypeError.
TextThrows(r, needle) ==
    \/ r.product_name = Undefined
    \/ /\ ~ includes(toLowerCase(r.product_name), needle)
       /\ r.product_code = Undefined

\* Mutant: the text filter forgets hardware_rev.
TextPass_NoHardwareRev(r, needle) ==
    \/ includes(toLowerCase(r.product_name), needle)
    \/ includes(toLowerCase(r.product_code), needle)

TextPass(r, needle) ==
    \/ includes(toLowerCase(r.product_name), needle)
    \/ includes(toLowerCase(r.product_code), needle)
    \/ includes(toLowerCase(IF r.hardware_rev = Undefined THEN <<>>
                            ELSE r.hardware_rev), needle)

\* Mutant: the release-date comparator subtracts the wrong way round.
Comparator_Ascending(a, b, sk) ==
    IF sk = "released_at"
    THEN IF getTime(a.released_at).valid /\ getTime(b.released_at).valid
         THEN Sign(getTime(a.released_at).t - getTime(b.released_at).t)
         ELSE 0
    ELSE IF sk = "version"
    THEN numericCompare(b.version, a.version)
    ELSE localeCompare(String(a[sk]), String(b[sk]))

\* The sort comparator's sign; a NaN result counts as +0 (SortCompare).
Comparator(a, b, sk) ==
    IF sk = "released_at"
    THEN IF getTime(a.released_at).valid /\ getTime(b.released_at).valid
         THEN Sign(getTime(b.released_at).t - getTime(a.released_at).t)
         ELSE 0
    ELSE IF sk = "version"
    THEN numericCompare(b.version, a.version)
    ELSE localeCompare(String(a[sk]), String(b[sk]))

\* The inputs come from finite sets, so the pure functions of the pipeline are
\* tabulated once over them.
AllRecords == Range(INLINE_DATA.items) \cup RecordPool \cup {NamelessRecord}

Timestamps == {r.released_at : r \in AllRecords} \cup {EpochString}

TimeOf == [s \in Timestamps |-> getTime(s)]

TextThrowsOf == [r \in AllRecords, qq \in Queries |-> TextThrows(r, Needle(qq))]

TextPassOf == [r \in AllRecords, qq \in Queries |-> TextPass(r, Needle(qq))]

CompareOf == [sk \in SortKeys, a \in AllRecords, b \in AllRecords |-> Comparator(a, b, sk)]

RECURSIVE InsertSorted(_, _, _)
InsertSorted(s, x, sk) ==
    IF s = <<>> THEN <<x>>
    ELSE IF CompareOf[sk, s[Len(s)], x] <= 0 THEN Append(s, x)
    ELSE Append(InsertSorted(SubSeq(s, 1, Len(s) - 1), x, sk), s[Len(s)])

RECURSIVE StableSort(_, _)
StableSort(s, sk) ==
    IF s = <<>> THEN <<>>
    ELSE InsertSorted(StableSort(SubSeq(s, 1, Len(s) - 1), sk), s[Len(s)], sk)

\* ECMAScript's "consistent comparator" for the elements being sorted
Consistent(s, sk) ==
    \A a \in Range(s), b \in Range(s), c \in Range(s) :
        /\ CompareOf[sk, a, a] = 0
        /\ CompareOf[sk, a, b] = - CompareOf[sk, b, a]
        /\ (CompareOf[sk, a, b] = 0 /\ CompareOf[sk, b, c] = 0)
               => CompareOf[sk, a, c] = 0
        /\ (CompareOf[sk, a, b] < 0 /\ CompareOf[sk, b, c] < 0)
               => CompareOf[sk, a, c] < 0
        /\ (CompareOf[sk, a, b] > 0 /\ CompareOf[sk, b, c] > 0)
               => CompareOf[sk, a, c] > 0

Orderings(s) ==
    {[i \in DOMAIN s |-> s[p[i]]] :
        p \in {f \in [DOMAIN s -> DOMAIN s] : \A i, j \in DOMAIN s : f[i] = f[j] => i = j}}

\* Array.prototype.sort: stable, and therefore determined, under a consistent
\* comparator; otherwise the order is implementation-defined.
SortResults(s, sk) ==
    IF Consistent(s, sk) THEN {StableSort(s, sk)} ELSE Orderings(s)

FilterThrows(recs, qq, sb) ==
    \/ recs.kind # "array"
    \/ \E i \in DOMAIN recs.items :
          ChannelPass(recs.items[i], sb) /\ TextThrowsOf[recs.items[i], qq]

Kept(recs, qq, sb) ==
    SelectSeq(SelectSeq(recs.items, LAMBDA r : ChannelPass(r, sb)),
              LAMBDA r : TextPassOf[r, qq])

FilteredResults(recs, qq, sb, sk) == SortResults(Kept(recs, qq, sb), sk)

RECURSIVE Latest(_, _)
Latest(items, acc) ==
    IF items = <<>> THEN acc
    ELSE Latest(Tail(items),
                IF DateGt(TimeOf[Head(items).released_at], TimeOf[acc])
                THEN Head(items).released_at ELSE acc)

LastUpdatedOf(recs) == TimeOf[Latest(recs.items, EpochString)]

\* new Date(r.released_at).toISOString() is a RangeError on an Invalid Date
CardThrows(r) == ~ TimeOf[r.released_at].valid

Deps(recs, qq, sb, sk) == [records |-> recs, q |-> qq, showBeta |-> sb, sortKey |-> sk]

\* One render of the component with the given slot values: the memos are
\* recomputed when their dependencies changed; a throw leaves them as they
\* were and takes the view down.
Render(recs, qq, sb, sk) ==
    IF Deps(recs, qq, sb, sk) # filteredDeps /\ FilterThrows(recs, qq, sb)
    THEN /\ crashed' = TRUE
         /\ mounted' = FALSE
         /\ UNCHANGED memo
    ELSE \E f \in (IF Deps(recs, qq, sb, sk) = filteredDeps THEN {filtered}
                   ELSE FilteredResults(recs, qq, sb, sk)) :
            /\ filtered' = f
            /\ filteredDeps' = Deps(recs, qq, sb, sk)
            /\ lastUpdated' = IF recs = lastUpdatedDeps THEN lastUpdated
                              ELSE LastUpdatedOf(recs)
            /\ lastUpdatedDeps' = recs
            /\ crashed' = (\E i \in DOMAIN f : CardThrows(f[i]))
            /\ mounted' = ~ (\E i \in DOMAIN f : CardThrows(f[i]))

\* A state update re-renders the component only while it is in the tree.
Rerender(recs, qq, sb, sk) ==
    IF mounted THEN Render(recs, qq, sb, sk)
    ELSE UNCHANGED <<filtered, filteredDeps, lastUpdated, lastUpdatedDeps, mounted, crashed>>

-----------------------------------------------------------------------------
(* Errors *)

Err(name, message) == [name |-> name, message |-> message]

NoError == Err(<<>>, <<>>)

HttpError(status) == Err(<<"E","r","r","o","r">>, <<"H","T","T","P"," ">> \o Digits(status))

TransportError == Err(<<"T","y","p","e","E","r","r","o","r">>, <<"F","a","i","l","e","d"," ","t","o"," ","f","e","t","c","h">>)

ParseError == Err(<<"S","y","n","t","a","x","E","r","r","o","r">>, <<"U","n","e","x","p","e","c","t","e","d"," ","e","n","d"," ","o","f"," ","J","S","O","N"," ","i","n","p","u","t">>)

\* String(e) of an Error: name, ": ", message
ErrorString(err) ==
    IF err.message = <<>> THEN err.name ELSE err.name \o <<":"," ">> \o err.message

Ok(status) == status \in 200..299

InitialLoading == mode = "remote"

-----------------------------------------------------------------------------
(* Initial state: after the first render, before the effect has run *)

Init ==
    /\ mode \in {"inline", "remote"}
    /\ records = INLINE_DATA
    /\ loading = InitialLoading
    /\ error = Null
    /\ q = <<>>
    /\ showBeta = FALSE
    /\ sortKey = "product_name"
    /\ filtered \in FilteredResults(INLINE_DATA, <<>>, FALSE, "product_name")
    /\ filteredDeps = Deps(INLINE_DATA, <<>>, FALSE, "product_name")
    /\ lastUpdated = LastUpdatedOf(INLINE_DATA)
    /\ lastUpdatedDeps = INLINE_DATA
    /\ mounted = TRUE
    /\ crashed = FALSE
    /\ pc = "mounted"
    /\ response = 0
    /\ json = NoJson
    /\ rejection = NoError
    /\ requests = 0
    /\ tornDownAt = "never"

-----------------------------------------------------------------------------
(* The effect and the promise chain *)

\* useEffect(() => { if (DATA_MODE === "remote") { setLoading(true); fetch(...) } }, [])
Effect ==
    /\ pc = "mounted"
    /\ mounted
    /\ IF mode = "remote"
       THEN /\ loading' = TRUE
            /\ requests' = requests + 1
            /\ pc' = "pending"
       ELSE /\ pc' = "idle"
            /\ UNCHANGED <<loading, requests>>
    /\ Rerender(records, q, showBeta, sortKey)
    /\ UNCHANGED <<mode, records, error, q, showBeta, sortKey, response, json,
                   rejection, tornDownAt>>

\* fetch() resolves with a response
FetchResolve(status) ==
    /\ pc = "pending"
    /\ pc' = "response"
    /\ response' = status
    /\ UNCHANGED <<mode, slots, memo, mounted, crashed, json, rejection,
                   requests, tornDownAt>>

\* fetch() rejects (network failure)
FetchReject ==
    /\ pc = "pending"
    /\ pc' = "rejected"
    /\ rejection' = TransportError
    /\ UNCHANGED <<mode, slots, memo, mounted, crashed, response, json,
                   requests, tornDownAt>>

\* .then((r) => { if (!r.ok) throw new Error(`HTTP ${r.status}`); return r.json(); })
Then1 ==
    /\ pc = "response"
    /\ IF ~ Ok(response)
       THEN /\ pc' = "rejected"
            /\ rejection' = HttpError(response)
       ELSE /\ pc' = "parsing"
            /\ UNCHANGED rejection
    /\ UNCHANGED <<mode, slots, memo, mounted, crashed, response, json,
                   requests, tornDownAt>>

\* r.json() resolves with the parsed body
JsonResolve(body) ==
    /\ pc = "parsing"
    /\ pc' = "parsed"
    /\ json' = body
    /\ UNCHANGED <<mode, slots, memo, mounted, crashed, response, rejection,
                   requests, tornDownAt>>

\* r.json() rejects (the body is not JSON)
JsonReject ==
    /\ pc = "parsing"
    /\ pc' = "rejected"
    /\ rejection' = ParseError
    /\ UNCHANGED <<mode, slots, memo, mounted, crashed, response, json,
                   requests, tornDownAt>>

\* Mutant: the payload is appended to the list instead of replacing it.
Then2_Merges ==
    /\ pc = "parsed"
    /\ records' = Arr(records.items \o json.items)
    /\ error' = Null
    /\ pc' = "settled"
    /\ Rerender(Arr(records.items \o json.items), q, showBeta, sortKey)
    /\ UNCHANGED <<mode, loading, q, showBeta, sortKey, response, json,
                   rejection, requests, tornDownAt>>

\* .then((json) => { setRecords(json); setError(null); })
Then2 ==
    /\ pc = "parsed"
    /\ records' = json
    /\ error' = Null
    /\ pc' = "settled"
    /\ Rerender(json, q, showBeta, sortKey)
    /\ UNCHANGED <<mode, loading, q, showBeta, sortKey, response, json,
                   rejection, requests, tornDownAt>>

\* Mutant: the failure handler also empties the list.
Catch_ClearsRecords ==
    /\ pc = "rejected"
    /\ records' = Arr(<<>>)
    /\ error' = ErrorString(rejection)
    /\ pc' = "settled"
    /\ Rerender(Arr(<<>>), q, showBeta, sortKey)
    /\ UNCHANGED <<mode, loading, q, showBeta, sortKey, response,
                   json, rejection, requests, tornDownAt>>

\* .catch((e) => setError(String(e)))
Catch ==
    /\ pc = "rejected"
    /\ error' = ErrorString(rejection)
    /\ pc' = "settled"
    /\ Rerender(records, q, showBeta, sortKey)
    /\ UNCHANGED <<mode, records, loading, q, showBeta, sortKey, response,
                   json, rejection, requests, tornDownAt>>

\* Mutant: loading is cleared in a .then(), so only when nothing was thrown.
Finally_OnSuccessOnly ==
    /\ pc = "settled"
    /\ loading' = IF rejection = NoError THEN FALSE ELSE loading
    /\ pc' = "done"
    /\ Rerender(records, q, showBeta, sortKey)
    /\ UNCHANGED <<mode, records, error, q, showBeta, sortKey, response, json,
                   rejection, requests, tornDownAt>>

\* Mutant: the completion is guarded by "is the view still mounted".
Finally_IfMounted ==
    /\ pc = "settled"
    /\ loading' = IF mounted THEN FALSE ELSE loading
    /\ pc' = "done"
    /\ Rerender(records, q, showBeta, sortKey)
    /\ UNCHANGED <<mode, records, error, q, showBeta, sortKey, response, json,
                   rejection, requests, tornDownAt>>

\* .finally(() => setLoading(false))
Finally ==
    /\ pc = "settled"
    /\ loading' = FALSE
    /\ pc' = "done"
    /\ Rerender(records, q, showBeta, sortKey)
    /\ UNCHANGED <<mode, records, error, q, showBeta, sortKey, response, json,
                   rejection, requests, tornDownAt>>

-----------------------------------------------------------------------------
(* Input handlers *)

\* onChange={(e) => setQ(e.target.value)}
setQ(value) ==
    /\ mounted
    /\ q' = value
    /\ Rerender(records, value, showBeta, sortKey)
    /\ UNCHANGED <<mode, records, loading, error, showBeta, sortKey, chain,
                   tornDownAt>>

\* onChange={(e) => setShowBeta(e.target.checked)}
setShowBeta(checked) ==
    /\ mounted
    /\ showBeta' = checked
    /\ Rerender(records, q, checked, sortKey)
    /\ UNCHANGED <<mode, records, loading, error, q, sortKey, chain, tornDownAt>>

\* Mutant: choosing a sort key also resets the query.
setSortKey_ResetsQuery(value) ==
    /\ mounted
    /\ sortKey' = value
    /\ q' = <<>>
    /\ Rerender(records, <<>>, showBeta, value)
    /\ UNCHANGED <<mode, records, loading, error, showBeta, chain, tornDownAt>>

\* onChange={(e) => setSortKey(e.target.value as any)}
setSortKey(value) ==
    /\ mounted
    /\ sortKey' = value
    /\ Rerender(records, q, showBeta, value)
    /\ UNCHANGED <<mode, records, loading, error, q, showBeta, chain, tornDownAt>>

\* The parent removes the view; the effect returns no cleanup function.
Unmount ==
    /\ mounted
    /\ mounted' = FALSE
    /\ tornDownAt' = pc
    /\ UNCHANGED <<mode, slots, memo, crashed, chain>>

Next ==
    \/ Effect
    \/ \E status \in Statuses : FetchResolve(status)
    \/ FetchReject
    \/ Then1
    \/ \E body \in Payloads : JsonResolve(body)
    \/ JsonReject
    \/ Then2
    \/ Catch
    \/ Finally
    \/ \E value \in Queries : setQ(value)
    \/ \E checked \in BOOLEAN : setShowBeta(checked)
    \/ \E value \in SortKeys : setSortKey(value)
    \/ Unmount

Spec == Init /\ [][Next]_vars

\* A promise reaction of the chain (lines 79-88)
Reaction == Then1 \/ Then2 \/ Catch \/ Finally

\* Promise reactions are microtasks: once a promise of the chain has settled,
\* the event loop runs its reaction.
FairSpec == Spec /\ WF_vars(Reaction)

-----------------------------------------------------------------------------
(* Properties *)

Count(s, r) == Cardinality({i \in DOMAIN s : s[i] = r})

\* the list, query and settings the current value of filtered was computed from
ViewList == filteredDeps.records.items

ChannelShown(r) == filteredDeps.showBeta \/ r.channel # <<"b","e","t","a">>

\* the text rule as the specification words it
QueryMatches(r, qq) ==
    LET n == toLowerCase(trim(qq))
    IN  \/ n = <<>>
        \/ includes(toLowerCase(r.product_name), n)
        \/ includes(toLowerCase(r.product_code), n)
        \/ includes(toLowerCase(IF r.hardware_rev = Undefined THEN <<>> ELSE r.hardware_rev), n)

QueryMatchesOf == [r \in AllRecords, qq \in Queries |-> QueryMatches(r, qq)]

Shown(r) == ChannelShown(r) /\ QueryMatchesOf[r, filteredDeps.q]

ShownTimes == [i \in DOMAIN filtered |-> TimeOf[filtered[i].released_at]]

FetchFailed == pc \in {"settled", "done"} /\ rejection # NoError

FetchSucceeded == pc \in {"settled", "done"} /\ rejection = NoError

\* C1: once the chain has handled a failed fetch (transport failure,
\* non-success status or unparseable body), records is still the embedded
\* default and error is the stringified failure; for a non-success status the
\* error text contains the status code, e.g. "Error: HTTP 500" contains "500".
C1_FailureKeepsDefault ==
    FetchFailed =>
        /\ records = INLINE_DATA
        /\ error = ErrorString(rejection)
        /\ error # Null
        /\ (response # 0 /\ ~ Ok(response)) => includes(error, Digits(response))
        /\ response = 500 => error = <<"E","r","r","o","r",":"," ","H","T","T","P"," ","5","0","0">>

C1_Witness ==
    /\ pc = "done"
    /\ response = 500
    /\ error = <<"E","r","r","o","r",":"," ","H","T","T","P"," ","5","0","0">>
    /\ records = INLINE_DATA

\* C2: whatever the fetch delivers (including a parsed body that is not an
\* array of records), the view never reaches a crashed state.
C2_ViewNeverCrashes == ~ crashed

\* C3: in remote mode loading is true from mount until the chain completes,
\* it is cleared only by the completion step and only after the records/error
\* update of the outcome, it never becomes true again, and it is eventually
\* cleared once the fetch has settled; in embedded mode it is always false.
C3_LoadingLifecycle ==
    /\ [](mode = "remote" /\ pc # "done" => loading)
    /\ [](pc = "done" => ~ loading)
    /\ [](mode = "inline" => ~ loading)
    /\ [][(loading /\ ~ loading') =>
             /\ pc = "settled"
             /\ FetchSucceeded => (records = json /\ error = Null)
             /\ FetchFailed => error = ErrorString(rejection)]_vars
    /\ [][~ loading => ~ loading']_vars
    /\ (pc \in {"parsed", "rejected"}) ~> (~ loading)

C3_Witness ==
    /\ mode = "remote"
    /\ pc = "done"
    /\ ~ loading
    /\ rejection = ParseError

\* C4: after a successful fetch records is exactly the parsed payload and
\* error is null; error is non-null only while records is the embedded default.
C4_SuccessReplaces ==
    /\ FetchSucceeded => (records = json /\ error = Null)
    /\ error # Null => records = INLINE_DATA

C4_Witness ==
    /\ FetchSucceeded
    /\ records = json
    /\ records # INLINE_DATA
    /\ Len(records.items) = MaxLen
    /\ error = Null

\* C5 as claimed: without show-beta no beta record is shown, with show-beta
\* every record of the list is shown, and the view is a sub-multiset of the list.
C5_ShowBetaShowsAll ==
    /\ ~ filteredDeps.showBeta => \A i \in DOMAIN filtered : filtered[i].channel # <<"b","e","t","a">>
    /\ filteredDeps.showBeta =>
           \A r \in Range(ViewList) : Count(filtered, r) = Count(ViewList, r)
    /\ \A r \in Range(filtered) : Count(filtered, r) <= Count(ViewList, r)

\* C5 (amended): without show-beta no beta record is shown; with show-beta
\* every record of the list that matches the query is shown, whatever its
\* channel; the view is a sub-multiset of the list.
C5_ChannelFilter ==
    /\ ~ filteredDeps.showBeta => \A i \in DOMAIN filtered : filtered[i].channel # <<"b","e","t","a">>
    /\ filteredDeps.showBeta =>
           \A r \in Range(ViewList) :
               QueryMatchesOf[r, filteredDeps.q] => Count(filtered, r) = Count(ViewList, r)
    /\ \A r \in Range(filtered) : Count(filtered, r) <= Count(ViewList, r)

C5_Witness ==
    /\ filteredDeps.showBeta
    /\ \E i \in DOMAIN filtered : filtered[i].channel = <<"b","e","t","a">>
    /\ \E r \in Range(ViewList) : r \notin Range(filtered)

\* C6: a record that passes the channel filter is in the view exactly when
\* the trimmed, lower-cased query is empty or a substring of its lower-cased
\* product_name, product_code or hardware_rev (absent: ""); the view holds
\* nothing else, so an empty or blank query shows the channel-filtered list.
C6_TextFilter ==
    /\ \A r \in Range(ViewList) :
           ChannelShown(r) =>
               Count(filtered, r) = IF QueryMatchesOf[r, filteredDeps.q]
                                    THEN Count(ViewList, r) ELSE 0
    /\ \A r \in Range(filtered) : r \in Range(ViewList) /\ ChannelShown(r)
    /\ toLowerCase(trim(filteredDeps.q)) = <<>> =>
           Len(filtered) = Cardinality({i \in DOMAIN ViewList : ChannelShown(ViewList[i])})

C6_Witness ==
    /\ filteredDeps.q = <<" ","A","2"," ">>
    /\ LegacyRecord \in Range(ViewList)
    /\ LegacyRecord \notin Range(filtered)
    /\ filtered # <<>>

C6_BlankQueryWitness ==
    /\ filteredDeps.q = <<" ">>
    /\ filteredDeps.showBeta
    /\ Len(filtered) = Len(ViewList)
    /\ Len(filtered) >= 2
    /\ filtered # ViewList

\* C7 as claimed: the fallback for the empty list, otherwise max(released_at)
\* over all the records of the list.
C7_MaxOfAllRecords ==
    IF lastUpdatedDeps.items = <<>>
    THEN lastUpdated = getTime(EpochString)
    ELSE /\ \E r \in Range(lastUpdatedDeps.items) : lastUpdated = TimeOf[r.released_at]
         /\ \A r \in Range(lastUpdatedDeps.items) :
                TimeOf[r.released_at].valid /\ TimeOf[r.released_at].t <= lastUpdated.t

ParseableTimes(items) ==
    {TimeOf[r.released_at].t : r \in {x \in Range(items) : TimeOf[x.released_at].valid}}

\* C7 (amended): the last-updated value is the latest of the fallback
\* 1970-01-01T00:00:00Z and the parseable released_at timestamps of the whole
\* list (so the fallback for the empty list), whatever the query, show-beta
\* and sort key; a rendered view shows the value of its current records.
C7_LastUpdated ==
    /\ lastUpdated.valid
    /\ lastUpdated.t \in ParseableTimes(lastUpdatedDeps.items) \cup {0}
    /\ \A t \in ParseableTimes(lastUpdatedDeps.items) \cup {0} : t <= lastUpdated.t
    /\ mounted => lastUpdatedDeps = records

C7_Witness ==
    /\ lastUpdatedDeps.items = <<LegacyRecord>>
    /\ lastUpdated = Time(0)
    /\ mounted

C7_MaxWitness ==
    /\ Len(lastUpdatedDeps.items) >= 2
    /\ Len(filtered) < Len(lastUpdatedDeps.items)
    /\ lastUpdated.t > 0
    /\ \A i \in DOMAIN filtered : TimeOf[filtered[i].released_at].t < lastUpdated.t

IsPermutationOfShown ==
    /\ \A r \in Range(ViewList) :
           Count(filtered, r) = IF Shown(r) THEN Count(ViewList, r) ELSE 0
    /\ \A r \in Range(filtered) : r \in Range(ViewList)

TornDownInFlight ==
    ~ mounted /\ tornDownAt \in {"pending", "response", "parsing", "parsed", "rejected"}

\* C9: nothing cancels the fetch: when the view is torn down while the fetch
\* is in flight, the completion still performs its writes, so after the chain
\* has run the slots hold the outcome (records/error) and loading is cleared.
C9_CompletionWritesAfterTeardown ==
    TornDownInFlight =>
        /\ FetchSucceeded => (records = json /\ error = Null)
        /\ FetchFailed => error = ErrorString(rejection)
        /\ pc = "done" => ~ loading

C9_Witness ==
    /\ ~ mounted
    /\ tornDownAt = "pending"
    /\ pc = "done"
    /\ ~ loading
    /\ records = json

C9_FailureWitness ==
    /\ ~ mounted
    /\ tornDownAt = "pending"
    /\ pc = "done"
    /\ error # Null

\* C10: an input event changes exactly its own slot and nothing of records,
\* loading, error, and issues no request; records, loading and error change
\* only in a step of the fetch completion, which leaves the inputs alone;
\* rendering never alters records: it is the default or the payload as delivered.
C10_Frame ==
    /\ [][(q' # q \/ showBeta' # showBeta \/ sortKey' # sortKey) =>
             /\ UNCHANGED <<records, loading, error, requests, pc>>
             /\ (q' = q /\ showBeta' = showBeta) \/ (q' = q /\ sortKey' = sortKey)
                    \/ (showBeta' = showBeta /\ sortKey' = sortKey)]_vars
    /\ [][(records' # records \/ loading' # loading \/ error' # error) =>
             /\ UNCHANGED <<q, showBeta, sortKey, requests>>
             /\ pc \in {"parsed", "rejected", "settled"}
             /\ pc' # pc]_vars
    /\ [][requests' # requests => pc = "mounted" /\ UNCHANGED slots]_vars
    /\ [](records \in {INLINE_DATA, json})

C10_Witness ==
    /\ q = <<" ","A","2"," ">>
    /\ showBeta
    /\ sortKey = "version"
    /\ pc = "done"
    /\ records = json
    /\ Len(filtered) = 2
    /\ requests = 1

====
